---------------------------- MODULE Spec2Model ----------------------------
(***************************************************************************)
(* A model of build-html.js, the template-composition engine of the        *)
(* css-utility-functions documentation build: readFile (the fragment       *)
(* cache), processTemplate (the two-pass recursive include expansion with  *)
(* its cycle and depth guards), validateHTML, buildHTML and watchMode (the  *)
(* debounced rebuild loop).                                                *)
(*                                                                         *)
(* Text is a sequence of atoms.  An atom is one character that the regular *)
(* expressions or the path functions treat specially ("{", "}", ">", "/",  *)
(* " ", "$", "&") or a run of ordinary characters written as one           *)
(* word ("partials", "content", ".html", "a", ...).  A word never holds a  *)
(* special character, so matching on atoms is matching on characters.      *)
(*                                                                         *)
(* A path is a sequence of segments, root first; a segment is a text       *)
(* without "/".                                                            *)
(***************************************************************************)
EXTENDS Integers, Sequences, FiniteSets, TLC

Min(a, b) == IF a <= b THEN a ELSE b

Max(a, b) == IF a >= b THEN a ELSE b

\* t[a..b], the empty text when a > b
Sub(t, a, b) == IF a > b THEN << >> ELSE SubSeq(t, a, b)

\* the text t from position a on
From(t, a) == Sub(t, a, Len(t))

\* pat occurs in t at position i
HasAt(t, i, pat) ==
  /\ i >= 1
  /\ i + Len(pat) - 1 <= Len(t)
  /\ \A j \in 1..Len(pat) : t[i + j - 1] = pat[j]

\* String.prototype.includes
Includes(t, pat) == \E i \in 1..(Len(t) + 1) : HasAt(t, i, pat)

\* the regular expressions' \s
IsWs(c) == c = " "

\* the length of the run of atoms satisfying the class, from position i
RECURSIVE WsRun(_, _)
WsRun(t, i) ==
  IF i >= 1 /\ i <= Len(t) /\ IsWs(t[i]) THEN 1 + WsRun(t, i + 1) ELSE 0

\* the length of the run matched by [^}] from position i
RECURSIVE NonBraceRun(_, _)
NonBraceRun(t, i) ==
  IF i >= 1 /\ i <= Len(t) /\ t[i] # "}" THEN 1 + NonBraceRun(t, i + 1) ELSE 0

\* the number of whitespace atoms at the end of t
RECURSIVE TrailWs(_)
TrailWs(t) ==
  IF Len(t) > 0 /\ IsWs(t[Len(t)]) THEN 1 + TrailWs(Sub(t, 1, Len(t) - 1)) ELSE 0

\* String.prototype.trim
Trim(t) ==
  LET a == WsRun(t, 1)
  IN  IF a = Len(t) THEN << >> ELSE Sub(t, a + 1, Len(t) - TrailWs(t))

OpenMark == <<"{", "{", ">">>

CloseMark == <<"{", "{", "/">>

EndMark == <<"}", "}">>

Placeholder == <<"{", "{", "content", "}", "}">>

NoMatch == [found |-> FALSE]

\* The inline expression /\{\{>\s*([^}]+)\s*\}\}/ tried at position s.
\* After "{{>" every atom up to the first "}" is matched by \s*, the group
\* and \s*; the group needs one atom at least and "}}" must follow the
\* run.  \s* is greedy and gives back only what the group needs.
InlineAt(t, s) ==
  LET r == NonBraceRun(t, s + 3)
      e == s + 3 + r
      k == Min(WsRun(t, s + 3), r - 1)
  IN  IF HasAt(t, s, OpenMark) /\ r >= 1 /\ HasAt(t, e, EndMark)
      THEN [found |-> TRUE, start |-> s, end |-> e + 1,
            filePath |-> Sub(t, s + 3 + k, e - 1), content |-> << >>]
      ELSE NoMatch

\* the first match of the inline expression at or after position s
RECURSIVE NextInline(_, _)
NextInline(t, s) ==
  IF s > Len(t) THEN NoMatch
  ELSE LET m == InlineAt(t, s)
       IN  IF m.found THEN m ELSE NextInline(t, s + 1)

\* The block expression
\*   /\{\{>\s*([^}]+)\s*\}\}([\s\S]*?)\{\{\/\1\s*\}\}/
\* tried at position s.  The backtracking order is the engine's: the
\* leading \s* from its longest run down, the group from its longest run
\* down (it may give back trailing whitespace to the \s* after it), and
\* for each such group the lazy body from the shortest up, that is the
\* nearest closing marker "{{/" group \s* "}}".
\* the closing marker for group g matches at position e
CloserAt(t, e, g) ==
  LET c == e + 3 + Len(g)
  IN  /\ HasAt(t, e, CloseMark)
      /\ HasAt(t, e + 3, g)
      /\ HasAt(t, c + WsRun(t, c), EndMark)

\* the nearest position at or after e where the closing marker matches, 0 if none
RECURSIVE FindCloser(_, _, _)
FindCloser(t, e, g) ==
  IF e > Len(t) THEN 0
  ELSE IF CloserAt(t, e, g) THEN e ELSE FindCloser(t, e + 1, g)

\* the groups the engine tries at s, in its order: <<first position, length>>
BlockGroups(t, s) ==
  LET r    == NonBraceRun(t, s + 3)
      e    == s + 3 + r
      kmax == Min(WsRun(t, s + 3), r - 1)
      ofK(k) == LET p  == s + 3 + k
                    tw == Min(TrailWs(Sub(t, p, e - 1)), e - p - 1)
                IN  [j \in 1..(tw + 1) |-> <<p, e - p - (j - 1)>>]
      RECURSIVE all(_)
      all(k) == IF k < 0 THEN << >> ELSE ofK(k) \o all(k - 1)
  IN  all(kmax)

RECURSIVE TryGroups(_, _, _, _)
TryGroups(t, s, gs, i) ==
  IF i > Len(gs) THEN NoMatch
  ELSE LET p == gs[i][1]
           g == Sub(t, p, p + gs[i][2] - 1)
           e == s + 3 + NonBraceRun(t, s + 3)
           c == FindCloser(t, e + 2, g)
           z == c + 3 + Len(g)
       IN  IF c > 0
           THEN [found |-> TRUE, start |-> s, end |-> z + WsRun(t, z) + 1,
                 filePath |-> g, content |-> Sub(t, e + 2, c - 1)]
           ELSE TryGroups(t, s, gs, i + 1)

BlockAt(t, s) ==
  LET r == NonBraceRun(t, s + 3)
  IN  IF HasAt(t, s, OpenMark) /\ r >= 1 /\ HasAt(t, s + 3 + r, EndMark)
      THEN TryGroups(t, s, BlockGroups(t, s), 1)
      ELSE NoMatch

\* the first match of the block expression at or after position s
RECURSIVE NextBlock(_, _)
NextBlock(t, s) ==
  IF s > Len(t) THEN NoMatch
  ELSE LET m == BlockAt(t, s)
       IN  IF m.found THEN m ELSE NextBlock(t, s + 1)

\* partialContent.replace(/\{\{content\}\}/g, content.trim()): the second
\* argument is a replacement STRING, so the engine expands its "$"
\* patterns at every match: "$$" is "$", "$&" the matched text, "$" with a
\* backtick the text before the match and "$" with an apostrophe the text
\* after it.  The expression has no group, so "$1".."$9" stay as written.
\* The atoms "bq" and "sq" are the backtick and the apostrophe.
RECURSIVE GetSubstitution(_, _, _, _)
GetSubstitution(repl, str, pos, i) ==
  IF i > Len(repl) THEN << >>
  ELSE IF repl[i] = "$" /\ i < Len(repl) /\ repl[i + 1] \in {"$", "&", "bq", "sq"}
       THEN (CASE repl[i + 1] = "$" -> <<"$">>
               [] repl[i + 1] = "&" -> Placeholder
               [] repl[i + 1] = "bq" -> Sub(str, 1, pos - 1)
               [] OTHER             -> From(str, pos + Len(Placeholder)))
            \o GetSubstitution(repl, str, pos, i + 2)
       ELSE <<repl[i]>> \o GetSubstitution(repl, str, pos, i + 1)

RECURSIVE ReplaceFrom(_, _, _)
ReplaceFrom(str, repl, i) ==
  IF i > Len(str) THEN << >>
  ELSE IF HasAt(str, i, Placeholder)
       THEN GetSubstitution(repl, str, i, 1) \o ReplaceFrom(str, repl, i + Len(Placeholder))
       ELSE <<str[i]>> \o ReplaceFrom(str, repl, i + 1)

\* a replacement that puts the body after a target without a placeholder
ReplaceOrAppend(str, repl) ==
  IF Includes(str, Placeholder) THEN ReplaceFrom(str, repl, 1) ELSE str \o repl

ReplacePlaceholder(str, repl) == ReplaceFrom(str, repl, 1)

\* ------------------------------------------------------------------- paths

\* the position of the first "/" of t at or after i, 0 if none
RECURSIVE SlashFrom(_, _)
SlashFrom(t, i) ==
  IF i > Len(t) THEN 0 ELSE IF t[i] = "/" THEN i ELSE SlashFrom(t, i + 1)

\* the segments of a path text, split at every "/"
RECURSIVE Split(_)
Split(t) ==
  LET i == SlashFrom(t, 1)
  IN  IF i = 0 THEN <<t>> ELSE <<Sub(t, 1, i - 1)>> \o Split(From(t, i + 1))

\* path.normalize of the segments segs after the directory base: "" and "."
\* segments are dropped, ".." removes the segment before it (none at the root)
RECURSIVE NormalizeOnto(_, _, _)
NormalizeOnto(base, segs, i) ==
  IF i > Len(segs) THEN base
  ELSE LET g == segs[i]
       IN  IF g = << >> \/ g = <<".">> THEN NormalizeOnto(base, segs, i + 1)
           ELSE IF g = <<"..">>
                THEN NormalizeOnto(Sub(base, 1, Len(base) - 1), segs, i + 1)
                ELSE NormalizeOnto(Append(base, g), segs, i + 1)

\* path.normalize keeps a trailing "/": it is the empty last segment of the
\* result, so that "a.html/" names no file
Normalize(base, t) ==
  LET p == NormalizeOnto(base, Split(t), 1)
  IN  IF Len(t) > 0 /\ t[Len(t)] = "/" /\ Len(p) > 0 THEN Append(p, << >>) ELSE p

\* a path without its trailing "/"
Bare(p) == IF Len(p) > 0 /\ p[Len(p)] = << >> THEN Sub(p, 1, Len(p) - 1) ELSE p

\* path.dirname
Dirname(p) == Sub(Bare(p), 1, Len(Bare(p)) - 1)

\* path.isAbsolute
IsAbsolute(t) == Len(t) > 0 /\ t[1] = "/"

\* String.prototype.startsWith
StartsWith(t, pat) == HasAt(t, 1, pat)

\* String.prototype.endsWith
EndsWith(t, pat) == Len(t) >= Len(pat) /\ HasAt(t, Len(t) - Len(pat) + 1, pat)

\* __dirname, the directory of build-html.js
ScriptDir == << <<"repo">> >>

SRC_DIR == ScriptDir \o << <<"docs">>, <<"html">> >>

OUTPUT_FILE == ScriptDir \o << <<"docs">>, <<"index", ".html">> >>

LayoutPath == Append(SRC_DIR, <<"layout", ".html">>)

\* every path resolved from SRC_DIR
ResolveFromRoot(baseDir, trimmedPath) == Normalize(SRC_DIR, trimmedPath)

\* the directive's path rule: fullPath, normalized
ResolveInclude(baseDir, trimmedPath) ==
  IF StartsWith(trimmedPath, <<"partials", "/">>) \/ StartsWith(trimmedPath, <<"sections", "/">>)
  THEN Normalize(SRC_DIR, trimmedPath)
  ELSE IF IsAbsolute(trimmedPath)
       THEN Normalize(<< >>, trimmedPath)
       ELSE Normalize(baseDir, trimmedPath)

\* ------------------------------------------------------------------- state

VARIABLES
  files,          \* storage: the content of every file, by path
  dirs,           \* storage: the directories
  readOnlyOutput, \* storage: writing OUTPUT_FILE fails
  fileCache,      \* the Map fileCache: normalized path -> content
  includedFiles,  \* the Set includedFiles: the paths under expansion
  stack,          \* the activations of processTemplate, the innermost last
  exc,            \* the error being thrown
  pc,             \* where the process is
  watch,          \* started with --watch
  exitOnError,    \* the argument of the running buildHTML call
  processed,      \* buildHTML's local: the text processTemplate returned
  result,         \* what the last buildHTML call returned
  exitCode,       \* the code of process.exit
  logged,         \* the last error console.error reported as 'Build failed'
  issues,         \* the warnings validateHTML returned in the last build
  watching,       \* fs.watch is registered
  events,         \* the watch events not yet delivered to the callback
  timers,         \* the pending setTimeout timers: an id and the time left
  nextTimer,      \* the id setTimeout returns next
  debounceTimer,  \* watchMode's local: the id of the timer set last, 0 before
  buildNo,        \* ghost: the number of buildHTML calls so far
  readLog,        \* ghost: for every path read from storage, the last read
  storageOps,     \* ghost: readFile's storage accesses in the running build
  outAtStart,     \* ghost: the output file when the running build began
  lastBlock,      \* ghost: the last block substitution
  lastInclude,    \* ghost: the last directive whose path was resolved
  clock,          \* ghost: time and counts of the debounce
  changes         \* ghost: the number of file changes so far

fsVars == <<files, dirs, readOnlyOutput>>

engineVars == <<fileCache, includedFiles, stack, exc, processed, readLog, storageOps, lastBlock,
               lastInclude>>

buildVars == <<exitOnError, result, exitCode, logged, issues, buildNo, outAtStart>>

watchVars == <<watch, watching, events, timers, nextTimer, debounceTimer, clock, changes>>

vars == <<fsVars, engineVars, buildVars, watchVars, pc>>

MaxDepth == 20

DEBOUNCE_MS == 100

NoError == [kind |-> "none", path |-> << >>]

Error(k, p) == [kind |-> k, path |-> p]

NoPending == [path |-> << >>, start |-> 0, end |-> 0]

NoBlock == [set |-> FALSE, target |-> << >>, body |-> << >>, text |-> << >>]

NoInclude == [set |-> FALSE, text |-> << >>, baseDir |-> << >>, path |-> << >>]

EmptyMap == [p \in {} |-> << >>]

NoOps == [reads |-> EmptyMap, exists |-> EmptyMap, lookups |-> EmptyMap]

\* a map with the value v at p
Put(f, p, v) == [q \in DOMAIN f \cup {p} |-> IF q = p THEN v ELSE f[q]]

\* a map without p
Drop(f, p) == [q \in DOMAIN f \ {p} |-> f[q]]

\* fs.existsSync
ExistsSync(fs, ds, p) == p \in DOMAIN fs \/ (Len(p) > 0 /\ Bare(p) \in ds) \/ p = << >>

\* fs.readFileSync succeeds on a file only (a directory is EISDIR)
Readable(fs, p) == p \in DOMAIN fs

\* ensureDirectoryStructure: the directories it leaves (mkdir is recursive)
ensureDirectoryStructure(ds) ==
  ds \cup {Sub(SRC_DIR, 1, n) : n \in 1..Len(SRC_DIR)}
     \cup {Append(SRC_DIR, <<"partials">>), Append(SRC_DIR, <<"sections">>)}

\* readFile without the cache set of its last line
readFileUncached(cache, fs, ds, filePath) ==
  IF filePath \in DOMAIN cache
  THEN [err |-> NoError, content |-> cache[filePath], cache |-> cache,
        checked |-> FALSE, read |-> FALSE]
  ELSE IF ~ExistsSync(fs, ds, filePath)
  THEN [err |-> Error("FileNotFound", filePath), content |-> << >>, cache |-> cache,
        checked |-> TRUE, read |-> FALSE]
  ELSE IF ~Readable(fs, filePath)
  THEN [err |-> Error("ReadFailed", filePath), content |-> << >>, cache |-> cache,
        checked |-> TRUE, read |-> FALSE]
  ELSE [err |-> NoError, content |-> fs[filePath], cache |-> cache,
        checked |-> TRUE, read |-> TRUE]

\* readFile caching an empty content before it throws
readFileCachesFailure(cache, fs, ds, filePath) ==
  IF filePath \in DOMAIN cache
  THEN [err |-> NoError, content |-> cache[filePath], cache |-> cache,
        checked |-> FALSE, read |-> FALSE]
  ELSE IF ~ExistsSync(fs, ds, filePath)
  THEN [err |-> Error("FileNotFound", filePath), content |-> << >>,
        cache |-> Put(cache, filePath, << >>), checked |-> TRUE, read |-> FALSE]
  ELSE IF ~Readable(fs, filePath)
  THEN [err |-> Error("ReadFailed", filePath), content |-> << >>,
        cache |-> Put(cache, filePath, << >>), checked |-> TRUE, read |-> FALSE]
  ELSE [err |-> NoError, content |-> fs[filePath],
        cache |-> Put(cache, filePath, fs[filePath]),
        checked |-> TRUE, read |-> TRUE]

\* readFile(filePath): what it returns or throws, the cache it leaves, and
\* whether it checked existence and read the file
readFile(cache, fs, ds, filePath) ==
  IF filePath \in DOMAIN cache
  THEN [err |-> NoError, content |-> cache[filePath], cache |-> cache,
        checked |-> FALSE, read |-> FALSE]
  ELSE IF ~ExistsSync(fs, ds, filePath)
  THEN [err |-> Error("FileNotFound", filePath), content |-> << >>, cache |-> cache,
        checked |-> TRUE, read |-> FALSE]
  ELSE IF ~Readable(fs, filePath)
  THEN [err |-> Error("ReadFailed", filePath), content |-> << >>, cache |-> cache,
        checked |-> TRUE, read |-> FALSE]
  ELSE [err |-> NoError, content |-> fs[filePath],
        cache |-> Put(cache, filePath, fs[filePath]),
        checked |-> TRUE, read |-> TRUE]

\* the storage accesses of one readFile call, counted by path
Bump(f, p) == IF p \in DOMAIN f THEN [f EXCEPT ![p] = @ + 1] ELSE Put(f, p, 1)

Count(f, p) == IF p \in DOMAIN f THEN f[p] ELSE 0

Counted(ops, p, r) ==
  [reads   |-> IF r.read THEN Bump(ops.reads, p) ELSE ops.reads,
   exists  |-> IF r.checked THEN Bump(ops.exists, p) ELSE ops.exists,
   lookups |-> Bump(ops.lookups, p)]

\* the last storage read of every path: the build that made it, what it
\* returned, and whether an earlier read of the path returned something else
Logged(log, p, r, n) ==
  IF r.read
  THEN Put(log, p, [build |-> n, content |-> r.content,
                    changed |-> p \in DOMAIN log /\ log[p].content # r.content])
  ELSE log

\* the depth guard, off by one
DepthExceededEarly(depth) == depth >= MaxDepth

\* no depth guard
DepthExceededNever(depth) == FALSE

\* processTemplate's guard on entry
DepthExceeded(depth) == depth > MaxDepth

\* no cycle check
IsCircularNever(incl, normalizedPath) == FALSE

\* the cycle check of both callbacks
IsCircular(incl, normalizedPath) == normalizedPath \in incl

\* a catch block that leaves the path in the set
CatchKeep(incl, normalizedPath) == incl

\* the catch block of both callbacks: includedFiles.delete(normalizedPath)
CatchDelete(incl, normalizedPath) == incl \ {normalizedPath}

\* a callback that returns with the path still in the set
LeaveKeep(incl, normalizedPath) == incl

\* the callbacks' last lines before their return: includedFiles.delete(normalizedPath)
LeaveDelete(incl, normalizedPath) == incl \ {normalizedPath}

\* a new activation of processTemplate(template, baseDir, depth)
Frame(template, baseDir, depth, incl) ==
  [template |-> template, pass |-> 1, pos |-> 1, out |-> << >>,
   baseDir |-> baseDir, depth |-> depth, entered |-> FALSE,
   pending |-> NoPending, atCall |-> incl]

Top == stack[Len(stack)]

Rest == Sub(stack, 1, Len(stack) - 1)

\* a first pass that takes every opening marker for an inline directive
NextDirectiveInline(f) == NextInline(f.template, f.pos)

\* the next directive of the innermost activation's running pass
NextDirective(f) ==
  IF f.pass = 1 THEN NextBlock(f.template, f.pos) ELSE NextInline(f.template, f.pos)

\* ------------------------------------------------------------ validateHTML

\* html.match(/\{\{>\s*[^}]+\s*\}\}/g): the matched texts, in order
RECURSIVE MatchAllIncludes(_, _)
MatchAllIncludes(html, i) ==
  LET m == NextInline(html, i)
  IN  IF m.found
      THEN <<Sub(html, m.start, m.end)>> \o MatchAllIncludes(html, m.end + 1)
      ELSE << >>

validateHTML(html) ==
  (IF ~Includes(html, <<"<!DOCTYPE html>">>)
   THEN << [issue |-> "Missing DOCTYPE declaration", found |-> << >>] >> ELSE << >>)
  \o (IF ~Includes(html, <<"<html">>)
      THEN << [issue |-> "Missing <html> tag", found |-> << >>] >> ELSE << >>)
  \o (IF ~Includes(html, <<"</html>">>)
      THEN << [issue |-> "Missing closing </html> tag", found |-> << >>] >> ELSE << >>)
  \o (IF MatchAllIncludes(html, 1) # << >>
      THEN << [issue |-> "Unprocessed includes found",
               found |-> MatchAllIncludes(html, 1)] >>
      ELSE << >>)

\* --------------------------------------------------------- processTemplate

\* processTemplate is entered: the depth guard
Enter ==
  /\ pc = "resolve" /\ exc = NoError /\ stack # << >> /\ ~Top.entered
  /\ IF DepthExceeded(Top.depth)
     THEN /\ exc' = Error("MaxDepth", << >>)
          /\ stack' = stack
     ELSE /\ exc' = exc
          /\ stack' = [stack EXCEPT ![Len(stack)].entered = TRUE]
  /\ UNCHANGED <<fsVars, fileCache, includedFiles, processed, readLog, storageOps,
                 lastBlock, lastInclude, buildVars, watchVars, pc>>

\* The replace callback of the running pass, for the next directive: the path
\* rule, the cycle check, includedFiles.add, readFile, the placeholder
\* substitution of a block, up to the recursive call.  A throw of readFile is
\* caught by the callback's own catch, which deletes the path and rethrows.
Directive ==
  /\ pc = "resolve" /\ exc = NoError /\ stack # << >> /\ Top.entered
  /\ NextDirective(Top).found
  /\ LET m == NextDirective(Top)
         trimmedPath == Trim(m.filePath)
         normalizedPath == ResolveInclude(Top.baseDir, trimmedPath)
         r == readFile(fileCache, files, dirs, normalizedPath)
         partialContent == IF Top.pass = 1
                           THEN ReplacePlaceholder(r.content, Trim(m.content))
                           ELSE r.content
         added == includedFiles \cup {normalizedPath}
     IN  /\ lastInclude' = [set |-> TRUE, text |-> trimmedPath, baseDir |-> Top.baseDir,
                             path |-> normalizedPath]
         /\ IF IsCircular(includedFiles, normalizedPath)
            THEN /\ exc' = Error("Circular", normalizedPath)
                 /\ UNCHANGED <<fileCache, includedFiles, stack, readLog, storageOps,
                                lastBlock>>
            ELSE /\ storageOps' = Counted(storageOps, normalizedPath, r)
                 /\ fileCache' = r.cache
                 /\ readLog' = Logged(readLog, normalizedPath, r, buildNo)
                 /\ IF r.err # NoError
                    THEN /\ exc' = r.err
                         /\ includedFiles' = CatchDelete(added, normalizedPath)
                         /\ UNCHANGED <<stack, lastBlock>>
                    ELSE /\ exc' = exc
                         /\ includedFiles' = added
                         /\ lastBlock' = IF Top.pass = 1
                                         THEN [set |-> TRUE, target |-> r.content,
                                               body |-> m.content, text |-> partialContent]
                                         ELSE lastBlock
                         /\ stack' = Append(
                              [stack EXCEPT ![Len(stack)].pending =
                                 [path |-> normalizedPath, start |-> m.start,
                                  end |-> m.end]],
                              Frame(partialContent, Dirname(normalizedPath),
                                    Top.depth + 1, added))
  /\ UNCHANGED <<fsVars, processed, buildVars, watchVars, pc>>

\* the first replace is over: the second one scans its result
SecondPass ==
  /\ pc = "resolve" /\ exc = NoError /\ stack # << >> /\ Top.entered
  /\ Top.pass = 1 /\ ~NextDirective(Top).found
  /\ stack' = [stack EXCEPT ![Len(stack)] =
                 [@ EXCEPT !.template = Top.out \o From(Top.template, Top.pos),
                           !.pass = 2, !.pos = 1, !.out = << >>]]
  /\ UNCHANGED <<fsVars, fileCache, includedFiles, exc, processed, readLog, storageOps,
                 lastBlock, lastInclude, buildVars, watchVars, pc>>

\* the caller's activation after its callback got text back: the path is
\* deleted from includedFiles and text replaces the directive
Resumed(caller, text) ==
  [caller EXCEPT !.out = caller.out
                          \o Sub(caller.template, caller.pos, caller.pending.start - 1)
                          \o text,
                 !.pos = caller.pending.end + 1,
                 !.pending = NoPending]

\* the second replace is over: processTemplate returns, to the callback that
\* called it or to buildHTML
Return ==
  /\ pc = "resolve" /\ exc = NoError /\ stack # << >> /\ Top.entered
  /\ Top.pass = 2 /\ ~NextDirective(Top).found
  /\ LET text == Top.out \o From(Top.template, Top.pos)
     IN  IF Len(stack) = 1
         THEN /\ processed' = text
              /\ stack' = << >>
              /\ pc' = "finish"
              /\ UNCHANGED includedFiles
         ELSE /\ stack' = [Rest EXCEPT ![Len(Rest)] = Resumed(@, text)]
              /\ includedFiles' = LeaveDelete(includedFiles, Rest[Len(Rest)].pending.path)
              /\ UNCHANGED <<processed, pc>>
  /\ UNCHANGED <<fsVars, fileCache, exc, readLog, storageOps, lastBlock, lastInclude, buildVars,
                 watchVars>>

\* a catch that swallows the error
Swallowed(error) == NoError

\* the last line of both catch blocks: throw error
Rethrown(error) == error

\* an error leaves the innermost activation: the catch of the callback that
\* called it deletes the path and rethrows; out of the outermost activation
\* the error reaches buildHTML's catch
Unwind ==
  /\ pc = "resolve" /\ exc # NoError /\ stack # << >>
  /\ stack' = Rest
  /\ IF Len(stack) = 1
     THEN /\ pc' = "failed"
          /\ UNCHANGED <<includedFiles, exc>>
     ELSE /\ includedFiles' = CatchDelete(includedFiles, Rest[Len(Rest)].pending.path)
          /\ exc' = Rethrown(exc)
          /\ UNCHANGED pc
  /\ UNCHANGED <<fsVars, fileCache, processed, readLog, storageOps, lastBlock, lastInclude,
                 buildVars, watchVars>>

\* --------------------------------------------------------------- buildHTML

\* buildHTML returned to its caller: the one-shot main module is over and the
\* process ends with code 0; watchMode goes on to watchDirectory after its
\* first build; the timer callback returns to the event loop
Returned(code) ==
  IF ~watch THEN [pc |-> "exited", exitCode |-> 0]
  ELSE IF ~watching THEN [pc |-> "watchInit", exitCode |-> code]
  ELSE [pc |-> "idle", exitCode |-> code]

\* the cache kept from one build to the next
KeptCache(cache) == cache

\* a clear that keeps the layout cached
ClearedButLayout(cache) == [p \in DOMAIN cache \cap {LayoutPath} |-> cache[p]]

\* fileCache.clear()
ClearedCache(cache) == EmptyMap

\* includedFiles.clear()
ClearedSet(incl) == {}

\* buildHTML(flag) up to the call of processTemplate: the caches are cleared,
\* the directories made, the layout read
BuildBegin(flag) ==
  LET ds == ensureDirectoryStructure(dirs)
      r  == readFile(ClearedCache(fileCache), files, ds, LayoutPath)
  IN  /\ buildNo' = buildNo + 1
      /\ exitOnError' = flag
      /\ dirs' = ds
      /\ outAtStart' = IF OUTPUT_FILE \in DOMAIN files THEN <<files[OUTPUT_FILE]>> ELSE << >>
      /\ includedFiles' = ClearedSet(includedFiles)
      /\ lastBlock' = NoBlock
      /\ lastInclude' = NoInclude
      /\ processed' = << >>
      /\ issues' = << >>
      /\ IF ~ExistsSync(files, ds, SRC_DIR)
         THEN /\ exc' = Error("NoSrcDir", SRC_DIR)
              /\ fileCache' = ClearedCache(fileCache) /\ readLog' = readLog
              /\ storageOps' = NoOps
              /\ stack' = << >> /\ pc' = "failed"
         ELSE IF ~ExistsSync(files, ds, LayoutPath)
         THEN /\ exc' = Error("LayoutNotFound", LayoutPath)
              /\ fileCache' = ClearedCache(fileCache) /\ readLog' = readLog
              /\ storageOps' = NoOps
              /\ stack' = << >> /\ pc' = "failed"
         ELSE /\ fileCache' = r.cache
              /\ readLog' = Logged(readLog, LayoutPath, r, buildNo + 1)
              /\ storageOps' = Counted(NoOps, LayoutPath, r)
              /\ exc' = r.err
              /\ IF r.err # NoError
                 THEN stack' = << >> /\ pc' = "failed"
                 ELSE stack' = <<Frame(r.content, SRC_DIR, 0, {})>> /\ pc' = "resolve"
      /\ UNCHANGED <<files, readOnlyOutput, result, exitCode, logged>>

\* fs.writeFileSync(OUTPUT_FILE, processed)
WriteOutput(fs, text) == Put(fs, OUTPUT_FILE, text)

\* the main module: buildHTML() or watchMode(), whose first steps are
\* ensureDirectoryStructure and buildHTML(false)
Main ==
  /\ pc = "start"
  /\ BuildBegin(~watch)
  /\ UNCHANGED watchVars

\* a build that treats a validation warning as an error
BuildFinishStrict ==
  /\ pc = "finish"
  /\ issues' = validateHTML(processed)
  /\ IF readOnlyOutput \/ validateHTML(processed) # << >>
     THEN /\ exc' = Error(IF readOnlyOutput THEN "WriteFailed" ELSE "Invalid", OUTPUT_FILE)
          /\ pc' = "failed"
          /\ UNCHANGED <<files, result, exitCode>>
     ELSE /\ files' = WriteOutput(files, processed)
          /\ result' = "true"
          /\ pc' = Returned(exitCode).pc
          /\ exitCode' = Returned(exitCode).exitCode
          /\ exc' = exc
  /\ UNCHANGED <<dirs, readOnlyOutput, fileCache, includedFiles, stack, processed,
                 readLog, storageOps, lastBlock, lastInclude, exitOnError, logged,
                 buildNo, outAtStart, watchVars>>

\* processTemplate returned: validateHTML, the write, and return true
BuildFinish ==
  /\ pc = "finish"
  /\ issues' = validateHTML(processed)
  /\ IF readOnlyOutput
     THEN /\ exc' = Error("WriteFailed", OUTPUT_FILE)
          /\ pc' = "failed"
          /\ UNCHANGED <<files, result, exitCode>>
     ELSE /\ files' = WriteOutput(files, processed)
          /\ result' = "true"
          /\ pc' = Returned(exitCode).pc
          /\ exitCode' = Returned(exitCode).exitCode
          /\ exc' = exc
  /\ UNCHANGED <<dirs, readOnlyOutput, fileCache, includedFiles, stack, processed,
                 readLog, storageOps, lastBlock, lastInclude, exitOnError, logged, buildNo,
                 outAtStart, watchVars>>

\* the test of the catch, exiting whatever the flag
ExitsAlways(flag) == TRUE

\* the test of buildHTML's catch: if (exitOnError)
ExitsOnError(flag) == flag

\* a catch that writes what was assembled so far
BuildFailWritesOutput ==
  /\ pc = "failed"
  /\ logged' = exc
  /\ exc' = NoError
  /\ files' = WriteOutput(files, processed)
  /\ IF ExitsOnError(exitOnError)
     THEN pc' = "exited" /\ exitCode' = 1 /\ result' = result
     ELSE /\ pc' = Returned(exitCode).pc
          /\ exitCode' = Returned(exitCode).exitCode
          /\ result' = "false"
  /\ UNCHANGED <<dirs, readOnlyOutput, fileCache, includedFiles, stack, processed,
                 readLog, storageOps, lastBlock, lastInclude, exitOnError, issues, buildNo,
                 outAtStart, watchVars>>

\* buildHTML's catch: the error is logged; process.exit(1) or return false
BuildFail ==
  /\ pc = "failed"
  /\ logged' = exc
  /\ exc' = NoError
  /\ IF ExitsOnError(exitOnError)
     THEN pc' = "exited" /\ exitCode' = 1 /\ result' = result
     ELSE /\ pc' = Returned(exitCode).pc
          /\ exitCode' = Returned(exitCode).exitCode
          /\ result' = "false"
  /\ UNCHANGED <<fsVars, fileCache, includedFiles, stack, processed, readLog,
                 storageOps, lastBlock, lastInclude, exitOnError, issues, buildNo, outAtStart,
                 watchVars>>

\* -------------------------------------------------------- the fragment stores

\* "{{> p }}"
Inc(p) == OpenMark \o <<" ">> \o p \o <<" ">> \o EndMark

\* "{{>p}}"
IncTight(p) == OpenMark \o p \o EndMark

\* "{{/p }}"
End(p) == CloseMark \o p \o <<" ">> \o EndMark

\* "{{> p }}body{{/p }}", the form of the comment above the block expression
Block(p, body) == Inc(p) \o body \o End(p)

Html(t) == <<"<!DOCTYPE html>", "<html", ">">> \o t \o <<"</html>">>

PathA == Append(SRC_DIR, <<"partials">>) \o << <<"a", ".html">> >>

PathB == Append(SRC_DIR, <<"partials">>) \o << <<"b", ".html">> >>

RefA == <<"partials", "/", "a", ".html">>

RefB == <<"partials", "/", "b", ".html">>

\* the contents layout.html takes (none: the file is missing)
LayoutTexts ==
  { Html(<<"x">>),
    Html(Inc(RefA)),
    Inc(RefA) \o <<"x">> \o Inc(RefA),
    Inc(RefA) \o <<"x">> \o Inc(RefB),
    Block(RefA, <<" ", "MIDDLE", " ">>),
    Block(RefA, <<"$", "&">>),
    Block(RefA, <<"x">> \o Inc(RefB)),
    IncTight(RefA) \o <<"M">> \o CloseMark \o <<" ">> \o RefA \o <<" ">> \o EndMark,
    Inc(RefA) \o <<" ">> \o RefB \o <<" ">> \o EndMark,
    OpenMark \o <<" ">> \o EndMark,
    Block(RefA, Inc(<<"b", ".html">>)),
    Html(Inc(<<"..", "/", "index", ".html">>)),
    Inc(RefA) \o <<"x">> \o Block(RefA, <<"M">>),
    Inc(RefA) \o <<"M">> \o CloseMark \o RefA \o EndMark }

\* the contents partials/a.html takes
ATexts ==
  { <<"before", " ">> \o Placeholder \o <<" ", "after">>,
    <<"a">>,
    Placeholder \o Inc(<<"b", ".html">>) \o Placeholder,
    Inc(<<"..", "/", "layout", ".html">>),
    Inc(RefB),
    OpenMark }

\* the contents partials/b.html takes
BTexts ==
  { <<"b">>,
    Inc(RefA),
    Inc(<<".", "/", "a", ".html">>),
    Inc(<<"/", "repo", "/", "docs", "/", "html", "/", "partials", "/", "a", ".html">>) }

\* a set of texts and the case of a missing file
Optional(texts) == {<<t>> : t \in texts} \cup {<< >>}

\* the store with the files present among layout.html, a.html, b.html and
\* the output file
MakeStore(l, a, b, o) ==
  LET present == (IF l # << >> THEN {LayoutPath} ELSE {})
                 \cup (IF a # << >> THEN {PathA} ELSE {})
                 \cup (IF b # << >> THEN {PathB} ELSE {})
                 \cup (IF o # << >> THEN {OUTPUT_FILE} ELSE {})
  IN  [p \in present |-> IF p = LayoutPath THEN l[1]
                         ELSE IF p = PathA THEN a[1]
                         ELSE IF p = PathB THEN b[1]
                         ELSE o[1]]

OldOutputs == Optional({<<"old">>})

Stores ==
  { MakeStore(l, a, b, o) :
      l \in Optional(LayoutTexts), a \in Optional(ATexts), b \in Optional(BTexts),
      o \in OldOutputs }

\* the chains of nested inclusions: layout.html includes sections/f01.html,
\* which includes sections/f02.html, ..., up to the last of n files, which
\* includes nothing (a chain) or the first again (a ring)
MaxChain == 22

Digit(i) == <<"0", "1", "2", "3", "4", "5", "6", "7", "8", "9">>[i + 1]

ChainName(k) == <<"f", Digit(k \div 10), Digit(k % 10), ".html">>

ChainRef(k) == <<"sections", "/">> \o ChainName(k)

ChainPath(k) == Append(Append(SRC_DIR, <<"sections">>), ChainName(k))

ChainStore(n, ring) ==
  [p \in {LayoutPath} \cup {ChainPath(k) : k \in 1..n} |->
     IF p = LayoutPath THEN (IF n = 0 THEN <<"x">> ELSE Inc(ChainRef(1)))
     ELSE LET k == CHOOSE j \in 1..n : p = ChainPath(j)
          IN  IF k < n THEN Inc(ChainRef(k + 1))
              ELSE IF ring THEN Inc(ChainRef(1)) ELSE <<"x">>]

ChainStores == {ChainStore(n, ring) : n \in 1..MaxChain, ring \in BOOLEAN}

\* a chain of n files whose last one includes a file that is missing
DanglingStore(n) ==
  [p \in DOMAIN ChainStore(n, FALSE) |->
     IF p = ChainPath(n) THEN Inc(ChainRef(n + 1)) ELSE ChainStore(n, FALSE)[p]]

DanglingStores == {DanglingStore(n) : n \in 1..MaxChain}

\* the directories of a store: those its files lie in
DirsOf(fs) ==
  {Sub(SRC_DIR, 1, n) : n \in 1..(Len(SRC_DIR) - 1)}
  \cup UNION {{Sub(p, 1, n) : n \in 1..(Len(p) - 1)} : p \in DOMAIN fs}

\* --------------------------------------------------------------- watchMode

\* the stores of the watch runs, and the contents a change gives a file
WatchLayouts == { Html(Inc(RefA)), Block(RefA, <<"M">>), Inc(RefA) \o <<"x">> \o Inc(RefA) }

WatchTexts == { <<"a">>, <<"v2", " ">> \o Placeholder }

NotesPath == Append(SRC_DIR, <<"notes", ".txt">>)

\* the store whose layout includes notes.txt, a fragment beside it
NotesStore ==
  Put(MakeStore(<<Html(Inc(<<"notes", ".txt">>))>>, << >>, << >>, << >>), NotesPath, <<"n0">>)

WatchStores ==
  { MakeStore(<<l>>, a, << >>, << >>) : l \in WatchLayouts, a \in Optional(WatchTexts) }
  \cup {NotesStore}

\* the files that change, each with the name fs.watch reports for it (the
\* path below SRC_DIR, or no name at all)
Watched ==
  { [path |-> PathA, filename |-> RefA, texts |-> WatchTexts],
    [path |-> NotesPath, filename |-> <<"notes", ".txt">>, texts |-> {<<"n">>}],
    [path |-> NotesPath, filename |-> << >>, texts |-> {<<"n">>}] }

\* the file changes and the handled events of one run
MaxChanges == 3

\* time passes in steps of this length at most
TimeQuantum == 33

\* watchDirectory(SRC_DIR) and process.on('SIGINT'), after the first build
WatchStart ==
  /\ pc = "watchInit"
  /\ IF ~ExistsSync(files, dirs, SRC_DIR)
     THEN pc' = "exited" /\ exitCode' = 1 /\ watching' = watching
     ELSE pc' = "idle" /\ exitCode' = exitCode /\ watching' = TRUE
  /\ UNCHANGED <<fsVars, engineVars, exitOnError, result, logged, issues, buildNo,
                 outAtStart, watch, events, timers, nextTimer, debounceTimer, clock,
                 changes>>

\* a filter that lets every event through
QualifiesAlways(filename) == TRUE

\* the test of the watch callback's first line
Qualifies(filename) == filename # << >> /\ EndsWith(filename, <<".html">>)

\* a call of buildHTML is running
Building(p) == p \in {"resolve", "finish", "failed"}

\* the environment writes or removes a file below SRC_DIR; a registered
\* watcher is sent the event
FileChange ==
  /\ watch /\ pc \notin {"start", "exited"}
  /\ changes < MaxChanges
  /\ \E w \in Watched : \E c \in Optional(w.texts) :
       /\ c # (IF w.path \in DOMAIN files THEN <<files[w.path]>> ELSE << >>)
       /\ files' = IF c = << >> THEN Drop(files, w.path) ELSE Put(files, w.path, c[1])
       /\ events' = IF watching THEN Append(events, w.filename) ELSE events
       /\ clock' = IF watching
                   THEN [clock EXCEPT
                           !.sent = @ + 1,
                           !.late = IF @ = 0 /\ Building(pc) /\ Qualifies(w.filename)
                                    THEN clock.sent + 1 ELSE @]
                   ELSE clock
  /\ changes' = changes + 1
  /\ UNCHANGED <<dirs, readOnlyOutput, engineVars, buildVars, watch, watching, timers,
                 nextTimer, debounceTimer, pc>>

\* callbacks that run while a build is on the stack
EventLoopAnytime(p) == p \notin {"start", "watchInit", "exited"}

\* the event loop runs a callback (of fs.watch, of a timer, of SIGINT) only
\* when nothing else runs: buildHTML is synchronous from its first line to
\* its return
EventLoopFree(p) == p = "idle"

\* a SIGINT handler that only logs
ProcessStays(code) == [pc |-> "idle", exitCode |-> code]

\* process.exit(code)
ProcessExit(code) == [pc |-> "exited", exitCode |-> code]

\* the timer callback calling buildHTML() with its default
RebuildFlagDefault == TRUE

\* the argument of the timer callback's call buildHTML(false)
RebuildFlag == FALSE

\* a clearTimeout that clears nothing
ClearTimeoutNothing(ts, id) == ts

\* clearTimeout(id)
ClearTimeout(ts, id) == {t \in ts : t.id # id}

\* a setTimeout that arms nothing
SetTimeoutNothing(ts, id, ms) == ts

\* setTimeout(callback, ms), returning id
SetTimeout(ts, id, ms) == ts \cup {[id |-> id, left |-> ms]}

\* an invalidation that empties the cache
InvalidateAll(cache, changedPath) == EmptyMap

\* fileCache.delete(path.normalize(changedPath))
Invalidate(cache, changedPath) == Drop(cache, changedPath)

\* the fs.watch callback, for the oldest undelivered event
HandleEvent ==
  /\ EventLoopFree(pc) /\ events # << >>
  /\ events' = Tail(events)
  /\ LET filename == Head(events)
         changedPath == Normalize(SRC_DIR, filename)
     IN  IF ~Qualifies(filename)
         THEN UNCHANGED <<fileCache, timers, nextTimer, debounceTimer, clock>>
         ELSE /\ fileCache' = Invalidate(fileCache, changedPath)
              /\ timers' = SetTimeout(ClearTimeout(timers, debounceTimer), nextTimer,
                                      DEBOUNCE_MS)
              /\ debounceTimer' = nextTimer
              /\ nextTimer' = nextTimer + 1
              /\ clock' = [clock EXCEPT
                   !.since = 0,
                   !.handled = @ + 1,
                   !.bursts = IF clock.handled = 0 \/ clock.since > DEBOUNCE_MS
                              THEN @ + 1 ELSE @,
                   !.gap = IF clock.handled = 0 \/ clock.since > DEBOUNCE_MS
                           THEN 0 ELSE Max(@, clock.since),
                   !.raced = @ \/ (clock.handled > 0 /\ clock.since = DEBOUNCE_MS),
                   !.lateSeen = IF clock.late = clock.sent - Len(events) + 1
                                THEN 1 ELSE @]
  /\ UNCHANGED <<fsVars, includedFiles, stack, exc, processed, readLog, storageOps,
                 lastBlock, lastInclude, buildVars, watch, watching, changes, pc>>

\* time passes while the event loop waits: no further than the next timer
Tick ==
  /\ EventLoopFree(pc) /\ timers # {}
  /\ \A t \in timers : t.left > 0
  /\ LET d == CHOOSE d \in 1..TimeQuantum :
                /\ \A t \in timers : d <= t.left
                /\ d = TimeQuantum \/ \E t \in timers : d = t.left
     IN  /\ timers' = {[t EXCEPT !.left = @ - d] : t \in timers}
         /\ clock' = [clock EXCEPT !.since = Min(@ + d, DEBOUNCE_MS + 1)]
  /\ UNCHANGED <<fsVars, engineVars, buildVars, watch, watching, events, nextTimer,
                 debounceTimer, changes, pc>>

\* a timer is due: its callback calls buildHTML(false), which takes time
TimerFire ==
  /\ EventLoopFree(pc)
  /\ \E t \in timers :
       /\ t.left = 0
       /\ timers' = timers \ {t}
  /\ BuildBegin(RebuildFlag)
  /\ clock' = [clock EXCEPT !.rebuilds = @ + 1,
                            !.fireGap = IF clock.rebuilds = 0 \/ clock.fireGap = clock.since
                                        THEN clock.since ELSE 0,
                            !.since = DEBOUNCE_MS + 1,
                            !.lateSeen = IF @ = 1 THEN 2 ELSE @]
  /\ UNCHANGED <<watch, watching, events, nextTimer, debounceTimer, changes>>

\* the SIGINT handler
Sigint ==
  /\ EventLoopFree(pc)
  /\ pc' = ProcessExit(0).pc
  /\ exitCode' = ProcessExit(0).exitCode
  /\ UNCHANGED <<fsVars, engineVars, exitOnError, result, logged, issues, buildNo,
                 outAtStart, watchVars>>

\* --------------------------------------------------------------------- Init

Clock0 == [since |-> DEBOUNCE_MS + 1, handled |-> 0, bursts |-> 0, rebuilds |-> 0,
           gap |-> 0, raced |-> FALSE, fireGap |-> 0, sent |-> 0, late |-> 0,
           lateSeen |-> 0]

Init ==
  /\ watch \in BOOLEAN
  /\ files \in IF watch THEN WatchStores ELSE Stores \cup ChainStores \cup DanglingStores
  /\ dirs = DirsOf(files)
  /\ readOnlyOutput \in IF watch THEN {FALSE} ELSE BOOLEAN
  /\ fileCache = EmptyMap
  /\ includedFiles = {}
  /\ stack = << >>
  /\ exc = NoError
  /\ pc = "start"
  /\ exitOnError = TRUE
  /\ processed = << >>
  /\ result = "none"
  /\ exitCode = -1
  /\ logged = NoError
  /\ issues = << >>
  /\ watching = FALSE
  /\ events = << >>
  /\ timers = {}
  /\ nextTimer = 1
  /\ debounceTimer = 0
  /\ buildNo = 0
  /\ readLog = EmptyMap
  /\ storageOps = NoOps
  /\ outAtStart = << >>
  /\ lastBlock = NoBlock
  /\ lastInclude = NoInclude
  /\ clock = Clock0
  /\ changes = 0

Next ==
  \/ Main
  \/ Enter
  \/ Directive
  \/ SecondPass
  \/ Return
  \/ Unwind
  \/ BuildFinish
  \/ BuildFail
  \/ WatchStart
  \/ FileChange
  \/ HandleEvent
  \/ Tick
  \/ TimerFire
  \/ Sigint

Spec == Init /\ [][Next]_vars

\* The watch runs from one layout, a.html there or missing, with the event
\* loop running what is due (the callback of a delivered event, the passing
\* of time, the callback of a due timer) and with every call of buildHTML,
\* synchronous code, coming to its end
LiveStores ==
  { MakeStore(<<Html(Inc(RefA))>>, a, << >>, << >>) : a \in Optional({<<"a">>}) }
  \cup {NotesStore}

LiveInit == Init /\ watch /\ files \in LiveStores

FairSpec ==
  /\ LiveInit /\ [][Next]_vars
  /\ WF_vars(WatchStart) /\ WF_vars(HandleEvent) /\ WF_vars(Tick) /\ WF_vars(TimerFire)
  /\ []<>(~Building(pc))

\* ------------------------------------------------- the directives of a store

\* the fragments of the store: every file but the output
SourcePaths == DOMAIN files \ {OUTPUT_FILE}

\* the paths the opening markers of t name, from position i on, resolved as
\* processTemplate resolves them for a fragment of directory dir
RECURSIVE Targets(_, _, _)
Targets(t, dir, i) ==
  LET m == NextInline(t, i)
  IN  IF m.found
      THEN {ResolveInclude(dir, Trim(m.filePath))} \cup Targets(t, dir, m.end + 1)
      ELSE {}

\* the fragments the directives of fragment p name
Refs(p) ==
  IF p \in SourcePaths
  THEN Targets(files[p], IF p = LayoutPath THEN SRC_DIR ELSE Dirname(p), 1)
  ELSE {}

\* the paths reached from the paths of seen, by directives
RECURSIVE Reach(_)
Reach(seen) ==
  LET more == seen \cup UNION {Refs(p) : p \in seen}
  IN  IF more = seen THEN seen ELSE Reach(more)

\* the fragments resolution can come to, the layout first
Reachable == Reach({LayoutPath})

\* a fragment resolution can come to includes itself, directly or not
HasCycle == \E p \in Reachable : p \in Reach(Refs(p))

\* no directive resolution can come to names a missing fragment
AllPresent == Reachable \subseteq SourcePaths

\* the one-shot run is past processTemplate, which returned or threw
ResolutionOver == ~watch /\ pc \in {"finish", "failed"} /\ exc.kind # "WriteFailed"

\* ------------------------------------------------------------------ claims

C2_DepthLimit ==
  \A n \in 1..MaxChain :
    (pc \in {"finish", "failed"} /\ exc.kind # "WriteFailed"
       /\ files = ChainStore(n, FALSE))
      => IF n <= MaxDepth
         THEN pc = "finish" /\ processed = <<"x">>
         ELSE pc = "failed" /\ exc.kind = "MaxDepth"

\* C2: the chain of exactly MaxDepth inclusions has resolved
C2_Witness ==
  /\ pc = "finish" /\ files = ChainStore(MaxDepth, FALSE)
  /\ Cardinality(DOMAIN storageOps.reads) = MaxDepth + 1

\* a closing marker "{{/ path }}" at position i of t
ClosingAt(t, i) ==
  /\ HasAt(t, i, CloseMark)
  /\ NonBraceRun(t, i + 3) >= 1
  /\ HasAt(t, i + 3 + NonBraceRun(t, i + 3), EndMark)

\* t holds directive syntax: an opening marker or a closing marker
HasDirectiveSyntax(t) ==
  NextInline(t, 1).found \/ \E i \in 1..Len(t) : ClosingAt(t, i)

\* C3, as the specification states it: for a store without a cycle, with
\* every referenced fragment present and no more fragments than the depth
\* limit allows, processTemplate returns, and the text it returns holds no
\* directive syntax.
C3_ResolvesWithoutDirectives ==
  (ResolutionOver /\ ~HasCycle /\ AllPresent /\ Cardinality(SourcePaths) <= MaxDepth)
    => (pc = "finish" /\ ~HasDirectiveSyntax(processed))

\* C4: when resolution fails because a fragment is missing, because of a
\* cycle or because of the depth limit, the output file is, from the catch
\* of buildHTML on, what it was when the build began: absent if it was absent,
\* of the same content otherwise.
C4_FailedBuildKeepsOutput ==
  LET err == IF pc = "failed" THEN exc ELSE logged
      out == IF OUTPUT_FILE \in DOMAIN files THEN <<files[OUTPUT_FILE]>> ELSE << >>
  IN  ((pc = "failed" \/ (pc \in {"idle", "watchInit", "exited"} /\ result # "true"))
         /\ err.kind \in {"FileNotFound", "Circular", "MaxDepth"})
        => out = outAtStart

\* C4: a build failed below the layout, after it had expanded a directive,
\* with an older output file in place
C4_Witness ==
  /\ pc = "exited" /\ exitCode = 1
  /\ logged = Error("FileNotFound", PathB)
  /\ PathA \in DOMAIN storageOps.reads
  /\ outAtStart = << <<"old">> >>
  /\ files[OUTPUT_FILE] = <<"old">>

\* C5: in one build readFile reads a path from storage once at most and
\* checks its existence once at most, however often the path is looked up;
\* a path looked up again was read once and checked once.
C5_OneReadPerPath ==
  \A p \in DOMAIN storageOps.lookups :
    /\ Count(storageOps.reads, p) <= 1
    /\ Count(storageOps.exists, p) <= 1
    /\ storageOps.lookups[p] >= 2
         => (Count(storageOps.reads, p) = 1 /\ Count(storageOps.exists, p) = 1)

\* C5: a fragment was looked up twice in one build
C5_Witness ==
  /\ PathA \in DOMAIN storageOps.lookups
  /\ storageOps.lookups[PathA] = 2
  /\ Count(storageOps.reads, PathA) = 1

\* the text str with every occurrence of the placeholder replaced by body,
\* inserted as it is
RECURSIVE InsertVerbatim(_, _, _)
InsertVerbatim(str, body, i) ==
  IF i > Len(str) THEN << >>
  ELSE IF HasAt(str, i, Placeholder)
  THEN body \o InsertVerbatim(str, body, i + Len(Placeholder))
  ELSE <<str[i]>> \o InsertVerbatim(str, body, i + 1)

\* C6, as the specification states it: the text a block hands on to the
\* recursive resolution is the target's content with every placeholder
\* replaced by the trimmed body, inserted as it is whatever it holds.
C6_BodyInsertedVerbatim ==
  lastBlock.set
    => lastBlock.text = InsertVerbatim(lastBlock.target, Trim(lastBlock.body), 1)

\* C7: as long as no event was handled at the very expiry of the window,
\* every burst of qualifying events (events less than DEBOUNCE_MS apart) has
\* caused one call of buildHTML(false), or has its one timer pending, and
\* every such call came DEBOUNCE_MS after the last event of its burst.
C7_OneRebuildPerBurst ==
  ~clock.raced
    => /\ clock.rebuilds = clock.bursts - (IF timers # {} THEN 1 ELSE 0)
       /\ clock.rebuilds > 0 => clock.fireGap = DEBOUNCE_MS

\* C7: three events of one burst, time passing between them, one rebuild
C7_Witness ==
  /\ ~clock.raced /\ clock.handled = 3 /\ clock.bursts = 1 /\ clock.gap > 0
  /\ clock.rebuilds = 1 /\ clock.fireGap = DEBOUNCE_MS /\ timers = {}

\* C8: whenever an activation of processTemplate runs, returns or throws,
\* includedFiles is what it was when the activation was called, and it is
\* empty when the outermost activation has returned or thrown.
C8_InclusionSetRestored ==
  /\ (pc = "resolve" /\ stack # << >>) => includedFiles = Top.atCall
  /\ pc \in {"finish", "failed"} => includedFiles = {}

\* C8: the expansion of a.html threw below it and the error is back in the
\* outermost activation, the set empty again
C8_Witness ==
  /\ pc = "resolve" /\ exc = Error("FileNotFound", PathB)
  /\ Len(stack) = 1 /\ Top.pending.path = PathA
  /\ includedFiles = {}

\* C9: the step that leaves buildHTML's catch logs the error and leaves the
\* output file as it was when the build began; with exitOnError the process
\* exits with a code other than 0, without it buildHTML returns false and
\* the process goes on.
C9_ErrorPolicy ==
  [][(pc = "failed" /\ pc' # "failed")
       => /\ logged' = exc
          /\ (IF OUTPUT_FILE \in DOMAIN files' THEN <<files'[OUTPUT_FILE]>> ELSE << >>)
               = outAtStart
          /\ IF exitOnError
             THEN pc' = "exited" /\ exitCode' # 0
             ELSE pc' # "exited" /\ result' = "false"]_vars

\* C9: a rebuild of the watcher failed and the watcher waits for events
C9_Witness ==
  /\ watch /\ watching /\ pc = "idle" /\ ~exitOnError
  /\ result = "false" /\ logged.kind = "FileNotFound" /\ buildNo >= 2

Output(fs) == IF OUTPUT_FILE \in DOMAIN fs THEN <<fs[OUTPUT_FILE]>> ELSE << >>

\* C11: a call of buildHTML begins only at the start of the program or from
\* the waiting event loop: no activation of processTemplate is left, no
\* error is in flight, the build before it has returned.
C11_OneBuildInFlight ==
  [][buildNo' # buildNo
       => /\ pc \in {"start", "idle"}
          /\ stack = << >>
          /\ exc = NoError
          /\ pc = "idle" => result \in {"true", "false"}]_vars

\* C11: a rebuild runs while a change that came during it waits undelivered
C11_Witness ==
  /\ watch /\ buildNo >= 2 /\ pc = "resolve" /\ Len(stack) >= 2
  /\ events # << >>

C13_WatcherSurvivesFailure ==
  /\ watch => exitCode \in {-1, 0}
  /\ (watch /\ pc = "exited") => exitCode = 0
  /\ (watch /\ buildNo >= 1) => ~exitOnError
  /\ (watch /\ result = "false" /\ pc \in {"idle", "watchInit"})
       => Output(files) = outAtStart

\* C13: a build of the watcher failed, and a later rebuild, caused by a
\* later event, succeeded
C13_Witness ==
  /\ watch /\ pc = "idle" /\ logged.kind = "FileNotFound"
  /\ result = "true" /\ clock.rebuilds >= 1
  /\ Output(files) # outAtStart

\* the directory the specification's rule resolves the path text t from, for
\* a directive of a fragment of directory dir
RuleBase(dir, t) ==
  IF Len(t) >= 2 /\ t[1] \in {"partials", "sections"} /\ t[2] = "/" THEN SRC_DIR
  ELSE IF Len(t) >= 1 /\ t[1] = "/" THEN << >>
  ELSE dir

\* the paths the rule gives the opening markers of t, from position i on
RECURSIVE RuleTargets(_, _, _)
RuleTargets(t, dir, i) ==
  LET m == NextInline(t, i)
  IN  IF m.found
      THEN {Normalize(RuleBase(dir, Trim(m.filePath)), Trim(m.filePath))}
             \cup RuleTargets(t, dir, m.end + 1)
      ELSE {}

\* the paths the rule gives the directives of the store, each resolved for
\* the fragment whose text holds it (a block's body is text of the fragment
\* that holds the block)
WrittenTargets ==
  UNION {RuleTargets(files[p], Dirname(p), 1) : p \in SourcePaths}

\* C14, as the specification states it: every path a one-shot build looks
\* up is the layout or what the rule gives a directive of the store,
\* resolved from the directory of the fragment whose text holds the
\* directive, directives inside a block's body included.
C14_PathRule ==
  ~watch => \A p \in DOMAIN storageOps.lookups : p \in {LayoutPath} \cup WrittenTargets

InsideRoot(p) == Len(p) >= Len(SRC_DIR) /\ Sub(p, 1, Len(SRC_DIR)) = SRC_DIR

\* C16, as the architecture review states it: every path a build reads from
\* storage lies below SRC_DIR, and a directive whose path leaves SRC_DIR
\* fails with an error, its target not read.
C16_ReadsInsideRoot ==
  /\ \A p \in DOMAIN storageOps.reads : InsideRoot(p)
  /\ (lastInclude.set /\ ~InsideRoot(lastInclude.path))
       => (exc # NoError \/ pc = "failed" \/ logged # NoError)

\* C17: a step of resolution in which readFile throws, the file missing or
\* unreadable, leaves the cache as it was, with no entry for the path.
C17_FailedReadNotCached ==
  [][(pc = "resolve" /\ exc = NoError /\ exc'.kind \in {"FileNotFound", "ReadFailed"})
       => (fileCache' = fileCache /\ exc'.path \notin DOMAIN fileCache')]_vars

\* C17: readFile threw for b.html with the layout and a.html in the cache
C17_Witness ==
  /\ pc = "resolve" /\ exc = Error("FileNotFound", PathB)
  /\ DOMAIN fileCache = {LayoutPath, PathA}

\* C18: when processTemplate has returned and the output file can be
\* written, the step that follows writes the text processTemplate returned to
\* the output file and buildHTML returns true, with the warnings of
\* validateHTML, none or several, kept apart.
C18_WarningsNeverBlock ==
  [][(pc = "finish" /\ pc' # "finish" /\ ~readOnlyOutput)
       => /\ OUTPUT_FILE \in DOMAIN files'
          /\ files'[OUTPUT_FILE] = processed
          /\ result' = "true"
          /\ exc' = NoError
          /\ issues' = validateHTML(processed)]_vars

\* C18: a build with several warnings has replaced an older output file
C18_Witness ==
  /\ pc = "exited" /\ exitCode = 0 /\ result = "true"
  /\ Len(issues) >= 2
  /\ outAtStart = << <<"old">> >> /\ files[OUTPUT_FILE] = processed
  /\ processed # <<"old">>

\* validateHTML's warning of unprocessed includes is among the issues
WarnsOfDirectives(iss) ==
  \E i \in 1..Len(iss) : iss[i].issue = "Unprocessed includes found"

\* C19, as the specification states it: validateHTML warns of leftover
\* directives exactly when the assembled text holds directive syntax, an
\* opening marker or a closing marker.
C19_WarnsOfEveryDirective ==
  pc = "finish"
    => (WarnsOfDirectives(validateHTML(processed)) <=> HasDirectiveSyntax(processed))

ActiveChain == {stack[i].pending.path : i \in 1..(Len(stack) - 1)}

\* a step in which a callback resolved a directive's path and went on to
\* the cycle check
ChecksCycle ==
  /\ pc = "resolve" /\ exc = NoError
  /\ exc'.kind = "Circular" \/ storageOps' # storageOps

\* C21: the cycle check throws exactly when the path of the directive is
\* under expansion on the running chain of calls; a path whose expansion is
\* over, by an earlier sibling directive, is admitted and looked up again.
C21_CircularOnlyOnChain ==
  [][ChecksCycle
       => /\ lastInclude'.set
          /\ exc'.kind = "Circular" <=> lastInclude'.path \in ActiveChain
          /\ exc'.kind = "Circular" => exc'.path = lastInclude'.path
          /\ exc'.kind # "Circular"
               => Count(storageOps'.lookups, lastInclude'.path)
                    = Count(storageOps.lookups, lastInclude'.path) + 1]_vars

\* C21: the layout named a.html twice, side by side, and both directives
\* were expanded
C21_Witness ==
  /\ pc = "finish"
  /\ files[LayoutPath] = Inc(RefA) \o <<"x">> \o Inc(RefA)
  /\ processed = <<"a", "x", "a">>
  /\ Count(storageOps.lookups, PathA) = 2

\* how far an activation has come: entered or not, the pass, the position
FrameRank(f) == <<IF f.entered THEN 1 ELSE 0, f.pass, f.pos>>

TripleLess(a, b) ==
  \/ a[1] < b[1]
  \/ a[1] = b[1] /\ a[2] < b[2]
  \/ a[1] = b[1] /\ a[2] = b[2] /\ a[3] < b[3]

\* the activations s come before the activations t: t goes on from s by a
\* nested call, or the outermost activation in which they differ is further
\* on in t
StackLess(s, t) ==
  \/ /\ Len(s) < Len(t)
     /\ \A i \in 1..Len(s) : FrameRank(s[i]) = FrameRank(t[i])
  \/ \E i \in 1..Min(Len(s), Len(t)) :
       /\ \A j \in 1..(i - 1) : FrameRank(s[j]) = FrameRank(t[j])
       /\ TripleLess(FrameRank(s[i]), FrameRank(t[i]))

\* the calls of processTemplate are nested by their depth, no more than
\* MaxDepth + 1 below the outermost, the last of them throwing at its entry,
\* and no activation scans beyond the end of its text
NestingBounded(st) ==
  /\ \A i \in 1..Len(st) :
       /\ st[i].depth = i - 1
       /\ st[i].entered => st[i].depth <= MaxDepth
       /\ st[i].pass \in {1, 2}
       /\ st[i].pos \in 1..(Len(st[i].template) + 1)
  /\ Len(st) - 1 <= MaxDepth + 1

\* a step of processTemplate (the environment's steps during a build leave
\* the engine's state alone)
EngineStep == pc = "resolve" /\ (engineVars' # engineVars \/ pc' # pc)

\* C22: every step of processTemplate brings the call nearer its end: it
\* returns or throws to buildHTML, or an error starts to unwind, or, with no
\* error, an activation scans further or calls a nested one, or an error
\* leaves an activation; the nesting is bounded by MaxDepth + 1 calls and
\* the scan by the length of the text, so the call ends, whatever the
\* store: with a cycle, by one path text or by several texts of the same
\* normalized path, or without.
C22_Terminates ==
  [][/\ NestingBounded(stack')
     /\ pc' = "resolve" => stack' # << >>
     /\ EngineStep
          => \/ pc' \in {"finish", "failed"}
             \/ pc' = pc /\ exc = NoError /\ exc' # NoError
             \/ pc' = pc /\ exc = NoError /\ exc' = NoError /\ StackLess(stack, stack')
             \/ pc' = pc /\ exc # NoError /\ exc' = exc /\ Len(stack') < Len(stack)]_vars

\* C22: a cycle through two texts of one path (partials/a.html and
\* ./a.html) was cut, and the call has thrown
C22_Witness ==
  /\ pc = "failed" /\ exc = Error("Circular", PathA)
  /\ lastInclude.text = <<".", "/", "a", ".html">>
  /\ Count(storageOps.lookups, PathA) = 1

\* C23, as the specification states it: while a build runs no path is twice
\* among the paths under expansion, and includedFiles holds MaxDepth paths
\* at most.
C23_InclusionSetBounded ==
  /\ \A i, j \in 1..(Len(stack) - 1) :
       i # j => stack[i].pending.path # stack[j].pending.path
  /\ Cardinality(includedFiles) <= MaxDepth

\* C24, as the specification states it: when a directive of the activation
\* of depth MaxDepth comes to its admission, its path not under expansion,
\* the step fails with the depth error, and the fragment is neither looked
\* up nor read from storage, nor reported missing.
C24_DepthCheckedAtAdmission ==
  [][(ChecksCycle /\ stack # << >> /\ Top.depth = MaxDepth /\ exc'.kind # "Circular")
       => /\ exc'.kind = "MaxDepth"
          /\ storageOps' = storageOps
          /\ fileCache' = fileCache]_vars

\* C25: once a directive has failed (its path under expansion, its fragment
\* missing or unreadable, or the depth exceeded), every step until buildHTML
\* catches the error only leaves an activation: the error stays the same,
\* nothing is looked up or read, no text is assembled or written, and the
\* error that leaves the outermost activation is the one buildHTML logs.
C25_NoPartialExpansion ==
  [][/\ (pc = "resolve" /\ exc # NoError)
          => /\ exc' = exc
             /\ storageOps' = storageOps /\ fileCache' = fileCache /\ readLog' = readLog
             /\ processed' = processed /\ Output(files') = Output(files)
             /\ \/ stack' = stack /\ pc' = pc
                \/ /\ stack' = Sub(stack, 1, Len(stack) - 1)
                   /\ pc' = IF stack' = << >> THEN "failed" ELSE "resolve"
     /\ (pc = "failed" /\ pc' # "failed") => (logged' = exc /\ result' # "true")]_vars

\* C25: the first of two directives of the layout failed and the second,
\* whose fragment is there, was never looked up
C25_Witness ==
  /\ pc = "failed" /\ exc = Error("FileNotFound", PathA)
  /\ files[LayoutPath] = Inc(RefA) \o <<"x">> \o Inc(RefB)
  /\ PathB \in DOMAIN files /\ PathB \notin DOMAIN storageOps.lookups

\* the number of inline directives of t from position i on
RECURSIVE CountInline(_, _)
CountInline(t, i) ==
  LET m == NextInline(t, i)
  IN  IF m.found THEN 1 + CountInline(t, m.end + 1) ELSE 0

\* the number of placeholders of t from position i on
RECURSIVE CountPlaceholders(_, _)
CountPlaceholders(t, i) ==
  IF i > Len(t) THEN 0
  ELSE IF HasAt(t, i, Placeholder) THEN 1 + CountPlaceholders(t, i + Len(Placeholder))
  ELSE CountPlaceholders(t, i + 1)

\* a step of the first pass that admits the target of a directive and calls
\* processTemplate for it
BlockStep ==
  /\ pc = "resolve" /\ exc = NoError /\ stack # << >> /\ Top.pass = 1
  /\ Len(stack') = Len(stack) + 1

\* C26: the directive the first pass replaces is an opening marker, a body
\* and a closing marker; the step that replaces it looks up the target
\* alone, whatever directives the body holds, and hands the target's content
\* with the trimmed body in place of every placeholder, the body's
\* directives still unexpanded, to the nested call: that text holds the
\* directives of the body once for every placeholder (for a body without
\* "$", which the replacement would rewrite).
C26_BodyExpandedInTarget ==
  [][BlockStep
       => LET T      == Top.template
              pend   == stack'[Len(stack)].pending
              open   == InlineAt(T, pend.start)
              body   == lastBlock'.body
              closer == open.end + 1 + Len(body)
              target == lastBlock'.target
              handed == stack'[Len(stack')].template
          IN  /\ lastBlock'.set
              /\ open.found
              /\ body = Sub(T, open.end + 1, closer - 1)
              /\ ClosingAt(T, closer)
              /\ pend.end = closer + 3 + NonBraceRun(T, closer + 3) + 1
              /\ target = fileCache'[pend.path]
              /\ \A p \in DOMAIN storageOps'.lookups :
                   p # pend.path => Count(storageOps.lookups, p) = storageOps'.lookups[p]
              /\ ~Includes(body, <<"$">>)
                   => /\ handed = InsertVerbatim(target, Trim(body), 1)
                      /\ CountInline(handed, 1)
                           = CountPlaceholders(target, 1) * CountInline(Trim(body), 1)
                               + CountInline(target, 1)]_vars

\* C26: the body of the layout's block names b.html, a.html holds the
\* placeholder twice and a directive of its own: b.html was expanded three
\* times, twice for the body
C26_Witness ==
  /\ pc = "finish"
  /\ files[LayoutPath] = Block(RefA, <<"x">> \o Inc(RefB))
  /\ files[PathA] = Placeholder \o Inc(<<"b", ".html">>) \o Placeholder
  /\ Count(storageOps.lookups, PathB) = 3
  /\ processed = <<"x", "b", "b", "x", "b">>

\* the closing marker at position i of t names the path text path
CloserFor(t, i, path) ==
  /\ ClosingAt(t, i)
  /\ Trim(Sub(t, i + 3, i + 2 + NonBraceRun(t, i + 3))) = path

\* the opening marker m of t is an inline directive: no closing marker for
\* its path follows it, or the nearest one that follows belongs to a later
\* opening marker for the same path
IsInline(t, m) ==
  \A c \in (m.end + 1)..Len(t) :
    (/\ CloserFor(t, c, Trim(m.filePath))
     /\ \A d \in (m.end + 1)..(c - 1) : ~CloserFor(t, d, Trim(m.filePath)))
      => \E o \in (m.end + 1)..(c - 1) :
           /\ InlineAt(t, o).found
           /\ Trim(InlineAt(t, o).filePath) = Trim(m.filePath)

\* the text of t from position i up to the next "{"
RECURSIVE PlainRun(_, _)
PlainRun(t, i) ==
  IF i > Len(t) \/ t[i] = "{" THEN << >> ELSE <<t[i]>> \o PlainRun(t, i + 1)

\* C27, as the specification states it, for the first directive of the
\* layout: when it is an inline directive whose fragment holds no directive
\* and no placeholder, the text processTemplate returns begins with the text
\* before the directive, the fragment's content in place of the directive,
\* and the text after the directive up to the next marker, wherever closing
\* markers for the same path come later in the layout.
C27_InlineReplacedInPlace ==
  (~watch /\ pc = "finish")
    => LET t == files[LayoutPath]
           m == NextInline(t, 1)
           p == ResolveInclude(SRC_DIR, Trim(m.filePath))
       IN  (/\ m.found /\ IsInline(t, m)
            /\ p \in DOMAIN files
            /\ ~HasDirectiveSyntax(files[p]) /\ ~Includes(files[p], <<"{">>))
             => HasAt(processed, 1,
                      Sub(t, 1, m.start - 1) \o files[p] \o PlainRun(t, m.end + 1))

\* the position of the closing marker that forms a block with the opening
\* marker m of t, 0 if there is none: the nearest closing marker after m
\* whose trimmed path text is that of m, no other opening marker for the
\* path in between
BlockCloser(t, m) ==
  IF IsInline(t, m) THEN 0
  ELSE CHOOSE c \in (m.end + 1)..Len(t) :
         /\ CloserFor(t, c, Trim(m.filePath))
         /\ \A d \in (m.end + 1)..(c - 1) : ~CloserFor(t, d, Trim(m.filePath))

\* C28, as the specification states it, for the first directive of the
\* layout: when a closing marker with the same trimmed path text follows
\* the opening marker, whatever whitespace either marker has, and the
\* target is a fragment without directives, the two are replaced as a block,
\* the text between them taken as the body.
C28_TrimmedPathsFormBlock ==
  (~watch /\ pc = "finish")
    => LET t == files[LayoutPath]
           m == NextInline(t, 1)
           p == ResolveInclude(SRC_DIR, Trim(m.filePath))
           c == BlockCloser(t, m)
       IN  (/\ m.found /\ c > 0
            /\ p \in DOMAIN files
            /\ ~HasDirectiveSyntax(files[p]) /\ ~Includes(files[p], <<"{">>))
             => /\ lastBlock.set
                /\ lastBlock.target = files[p]
                /\ lastBlock.body = Sub(t, m.end + 1, c - 1)

\* a step of processTemplate that admits the target of a directive, takes
\* its content from readFile and calls processTemplate for it
AdmitStep ==
  /\ pc = "resolve" /\ exc = NoError /\ stack # << >>
  /\ Len(stack') = Len(stack) + 1

\* C29: the raw content an inclusion uses is what the running build read
\* from storage for the path, once: a path included before in this build is
\* not read again, whatever the file in storage has become since, changed
\* or deleted.
C29_OneContentPerBuild ==
  [][AdmitStep
       => LET path == stack'[Len(stack)].pending.path
              raw  == IF Top.pass = 1 THEN lastBlock'.target
                      ELSE stack'[Len(stack')].template
          IN  /\ path \in DOMAIN readLog'
              /\ readLog'[path].build = buildNo
              /\ raw = readLog'[path].content
              /\ Count(storageOps.lookups, path) >= 1
                   => /\ path \in DOMAIN readLog /\ readLog'[path] = readLog[path]
                      /\ storageOps'.reads = storageOps.reads]_vars

\* C29: a.html was included a second time in one build after the file had
\* changed or gone, with the content of the first inclusion
C29_Witness ==
  /\ watch /\ pc = "resolve" /\ exc = NoError
  /\ Count(storageOps.lookups, PathA) = 2
  /\ Len(stack) = 2 /\ Top.template = readLog[PathA].content
  /\ PathA \in DOMAIN files => files[PathA] # Top.template

\* C30: the callback of every qualifying event leaves the timer it sets
\* pending with the whole window ahead, and a rebuild the timer callback
\* starts comes DEBOUNCE_MS at least after the last qualifying event the
\* watcher handled.
C30_DebounceSafety ==
  [][/\ clock'.handled # clock.handled
          => /\ [id |-> debounceTimer', left |-> DEBOUNCE_MS] \in timers'
             /\ clock'.since = 0
     /\ (pc = "idle" /\ buildNo' # buildNo)
          => /\ clock.handled > 0
             /\ clock.since >= DEBOUNCE_MS]_vars

\* C30: a rebuild has just begun, DEBOUNCE_MS after the second of two
\* events that came less than DEBOUNCE_MS apart
C30_Witness ==
  /\ watch /\ pc = "resolve" /\ Len(stack) = 1 /\ ~Top.entered
  /\ clock.handled = 2 /\ clock.gap > 0 /\ clock.rebuilds = 1
  /\ clock.fireGap = DEBOUNCE_MS /\ timers = {}

\* a qualifying event waits to be handled, or one was handled and no
\* rebuild has begun since
Pending ==
  \/ \E i \in 1..Len(events) : Qualifies(events[i])
  \/ clock.since <= DEBOUNCE_MS

\* C31: in a watch run whose events come to a pause (the run has a bounded
\* number of file changes), whenever a qualifying event waits to be handled,
\* sent while the loop waited or while a build ran, or was handled with no
\* rebuild since, then later every such event has been handled and a rebuild
\* has begun after the last of them, unless the process is shut down.
C31_EventLeadsToRebuild == Pending ~> (~Pending \/ pc = "exited")

\* C31: a qualifying event was sent while a rebuild ran, was handled after
\* it, and the next rebuild has begun
C31_Witness ==
  /\ watch /\ clock.late > 0 /\ clock.lateSeen = 2
  /\ pc = "resolve" /\ buildNo >= 3

\* the watch callback handles a qualifying event
HandlesQualifying == pc = "idle" /\ clock'.handled # clock.handled

\* C32: the callback of a qualifying event for the file of path P leaves
\* the cache without an entry for P and with every other entry as it was.
C32_InvalidatesOnePath ==
  [][HandlesQualifying
       => LET P == Normalize(SRC_DIR, Head(events))
          IN  /\ DOMAIN fileCache' = DOMAIN fileCache \ {P}
              /\ \A q \in DOMAIN fileCache' : fileCache'[q] = fileCache[q]]_vars

\* C32: after a build that cached the layout and a.html, the event for
\* a.html was handled: the layout's entry is left
C32_Witness ==
  /\ watch /\ pc = "idle" /\ result = "true"
  /\ clock.handled = 1 /\ clock.rebuilds = 0
  /\ PathA \in DOMAIN storageOps.reads
  /\ DOMAIN fileCache = {LayoutPath}

\* the position of the nearest closing marker after the opening marker m of
\* t that carries the path text of m, 0 if there is none
RECURSIVE NearestCloser(_, _, _)
NearestCloser(t, m, c) ==
  IF c > Len(t) THEN 0
  ELSE IF CloserFor(t, c, Trim(m.filePath)) THEN c
  ELSE NearestCloser(t, m, c + 1)

\* the first opening marker of t at or after position i that has a closing
\* marker for its path text after it
RECURSIVE FirstPaired(_, _)
FirstPaired(t, i) ==
  LET m == NextInline(t, i)
  IN  IF ~m.found THEN NoMatch
      ELSE IF NearestCloser(t, m, m.end + 1) > 0 THEN m
      ELSE FirstPaired(t, m.start + 1)

\* a step of the first pass of the innermost activation
FirstPassStep ==
  /\ pc = "resolve" /\ exc = NoError /\ stack # << >> /\ Top.entered /\ Top.pass = 1
  /\ stack' # stack \/ exc' # exc

\* C33, as stated: a step of the first pass takes the first opening marker
\* that has a closing marker with the same path text after it, pairs it
\* with the nearest such closing marker and takes all the text between the
\* two, other opening markers included, as the body; when no opening marker
\* has such a closing marker the first pass is over and the opening markers
\* are left to the second pass.
C33_NearestCloserPairs ==
  [][FirstPassStep
       => LET T == Top.template
              m == FirstPaired(T, Top.pos)
              c == NearestCloser(T, m, m.end + 1)
          IN  IF ~m.found
              THEN exc' = NoError /\ stack'[Len(stack)].pass = 2
              ELSE /\ lastInclude'.set /\ lastInclude'.text = Trim(m.filePath)
                   /\ exc' = NoError
                        => /\ Len(stack') = Len(stack) + 1
                           /\ stack'[Len(stack)].pending.start = m.start
                           /\ stack'[Len(stack)].pending.end
                                = c + 3 + NonBraceRun(T, c + 3) + 1
                           /\ lastBlock'.body = Sub(T, m.end + 1, c - 1)]_vars

\* C34, as stated: the root template is under expansion throughout the
\* build, so the cycle check of a directive for the root template's own path
\* throws the circular-include error, and the root template is not looked
\* up and expanded again.
C34_RootUnderExpansion ==
  [][(ChecksCycle /\ lastInclude'.set /\ lastInclude'.path = LayoutPath)
       => /\ exc' = Error("Circular", LayoutPath)
          /\ storageOps' = storageOps
          /\ Len(stack') = Len(stack)]_vars

\* the watcher was sent an event for a file that the most recent build read
ModifiedRead ==
  /\ watching
  /\ \E i \in 1..Len(events) :
       LET p == Normalize(SRC_DIR, events[i])
       IN  p \in DOMAIN readLog /\ readLog[p].build = buildNo

\* C35, as stated: in a watch run whose changes come to a pause, after the
\* modification of a fragment file that the most recent build read, a later
\* build begins, unless the process is shut down.
C35_ModifiedFragmentRebuilt ==
  \A n \in 0..(MaxChanges + 1) :
    (ModifiedRead /\ buildNo = n) ~> (buildNo > n \/ pc = "exited")

\* C36: at most one timer is pending at any time, the one the last
\* qualifying event armed; the timer callback that starts a rebuild is that
\* timer's, never the callback of a timer an event has cancelled.
C36_OneTimerPending ==
  [][/\ Cardinality(timers') <= 1
     /\ \A t \in timers' : t.id = debounceTimer'
     /\ (pc = "idle" /\ buildNo' # buildNo)
          => \E t \in timers : t.id = debounceTimer /\ timers' = timers \ {t}]_vars

\* C36: two timers were armed, the first was cancelled by the second event,
\* and the one rebuild that has begun was started by the second
C36_Witness ==
  /\ watch /\ pc = "resolve" /\ nextTimer = 3 /\ debounceTimer = 2
  /\ clock.rebuilds = 1 /\ clock.handled = 2 /\ timers = {}

\* the watch callback runs for an event that does not qualify
HandlesOther ==
  /\ pc = "idle" /\ events # << >> /\ events' = Tail(events)
  /\ ~(Head(events) # << >> /\ EndsWith(Head(events), <<".html">>))

\* C37: the callback of an event with no filename, or with a filename that
\* does not end in ".html", leaves the cache, the pending timer and the
\* variable that holds it as they were, and starts no build.
C37_OtherEventsIgnored ==
  [][HandlesOther
       => /\ fileCache' = fileCache
          /\ timers' = timers /\ debounceTimer' = debounceTimer /\ nextTimer' = nextTimer
          /\ buildNo' = buildNo /\ pc' = pc /\ stack' = stack
          /\ files' = files]_vars

\* C37: two events that do not qualify (for notes.txt, named or not) were
\* handled beside one for a.html; the timer of that one is pending, part of
\* its window gone, and the layout is in the cache
C37_Witness ==
  /\ watch /\ pc = "idle" /\ events = << >>
  /\ clock.sent = 3 /\ clock.handled = 1
  /\ NotesPath \in DOMAIN files /\ files[NotesPath] = <<"n">>
  /\ \E t \in timers : t.id = debounceTimer /\ t.left < DEBOUNCE_MS
  /\ LayoutPath \in DOMAIN fileCache

\* the layout is one block for a.html whose body names b.html, so
\* docs/html/partials/b.html or docs/html/b.html, and a.html holds neither a
\* placeholder nor a directive
BodyOnlyNamesB ==
  /\ ~watch /\ LayoutPath \in DOMAIN files /\ PathA \in DOMAIN files
  /\ files[LayoutPath] \in {Block(RefA, <<"x">> \o Inc(RefB)), Block(RefA, Inc(<<"b", ".html">>))}
  /\ CountPlaceholders(files[PathA], 1) = 0
  /\ CountInline(files[PathA], 1) = 0

\* C38: the step that replaces a block whose target holds no placeholder
\* hands the nested call the target's content as it is, with nothing of the
\* body in it; and the build of a layout whose only mention of b.html is in
\* such a body never looks b.html up, does not fail in the resolution, there
\* or missing as b.html may be, and ends with the content of the target.
C38_BodyDiscarded ==
  [][/\ (BlockStep /\ CountPlaceholders(lastBlock'.target, 1) = 0)
          => /\ lastBlock'.text = lastBlock'.target
             /\ stack'[Len(stack')].template = lastBlock'.target
     /\ BodyOnlyNamesB'
          => /\ DOMAIN storageOps'.lookups \subseteq {LayoutPath, PathA}
             /\ exc'.kind \in {"none", "WriteFailed"}
             /\ pc' = "finish" => processed' = files[PathA]]_vars

\* C38: the body of the layout's block names docs/html/b.html, which no
\* store holds, a.html is "a": the build came to its end with "a"
C38_Witness ==
  /\ pc = "finish"
  /\ files[LayoutPath] = Block(RefA, Inc(<<"b", ".html">>))
  /\ files[PathA] = <<"a">>
  /\ lastBlock.set /\ lastBlock.body = Inc(<<"b", ".html">>)
  /\ processed = <<"a">>

=============================================================================
